---- MODULE Spec2Model ----
(***************************************************************************)
(* A model of lib/interceptor.js: the Interceptor of spawk (match, run,    *)
(* the mock getters/setters, the API facade and compareOptions), together  *)
(* with the part of the host it leans on: RegExp.prototype.test,           *)
(* Array.prototype.toString, JSON.stringify, process.nextTick and the      *)
(* await of Promise.all.                                                   *)
(***************************************************************************)
EXTENDS Integers, Sequences, FiniteSets, TLC

VARIABLES
    interceptors,   \* the pool: a sequence of Interceptor objects
    handles,        \* every cp.ChildProcess allocated so far, by identity
    tasks,          \* the callbacks run() gave to process.nextTick, in order
    incoming,       \* the canonical (command, args, options) of the request
    ret             \* what the last operation returned to its caller

vars == <<interceptors, handles, tasks, incoming, ret>>

----------------------------------------------------------------------------
(* JavaScript values.  Every value is a record tagged with `type`.         *)

undefined == [type |-> "undefined"]
null == [type |-> "null"]
Str(s) == [type |-> "string", val |-> s]
Num(s) == [type |-> "number", val |-> s]
Bool(b) == [type |-> "boolean", val |-> IF b THEN "true" ELSE "false"]
Array(items) == [type |-> "array", items |-> items]
Object(props) == [type |-> "object", props |-> props]
RegExp(source, global) ==
    [type |-> "regexp", source |-> source, global |-> global, lastIndex |-> 0]
Function(name) == [type |-> "function", name |-> name]
Promise(state, value) == [type |-> "promise", state |-> state, value |-> value]
Error(message) == [type |-> "error", message |-> message]

\* ToBoolean of the language: what `if (x)` and `!x` test.
ToBoolean(v) ==
    CASE v.type = "undefined" -> FALSE
      [] v.type = "null" -> FALSE
      [] v.type = "boolean" -> v.val = "true"
      [] v.type = "number" -> v.val \notin {"0", "NaN"}
      [] v.type = "string" -> v.val # ""
      [] OTHER -> TRUE

\* a === b on primitives (NaN is not equal to itself).
StrictEquals(a, b) ==
    /\ a.type = b.type
    /\ a = b
    /\ ~(a.type = "number" /\ a.val = "NaN")

hasOwnProperty(obj, key) == key \in DOMAIN obj

\* obj[key]: undefined when the object has no such property.
Get(obj, key) == IF key \in DOMAIN obj THEN obj[key] ELSE undefined

\* Array.prototype.toString of an array of strings: its elements joined by ",".
RECURSIVE toString(_)
toString(items) ==
    IF Len(items) = 0 THEN ""
    ELSE IF Len(items) = 1 THEN items[1]
    ELSE items[1] \o "," \o toString(Tail(items))

\* JSON.stringify.  Its result is a text, or undefined (here the text
\* "undefined", which no JSON text equals) for undefined and functions.
RECURSIVE JSONelements(_)
JSONstringify(v) ==
    CASE v.type = "undefined" -> "undefined"
      [] v.type = "function" -> "undefined"
      [] v.type = "null" -> "null"
      [] v.type = "boolean" -> v.val
      [] v.type = "number" -> IF v.val \in {"NaN", "Infinity"} THEN "null" ELSE v.val
      [] v.type = "string" -> "\"" \o v.val \o "\""
      [] v.type = "array" -> "[" \o JSONelements(v.items) \o "]"

\* The elements of an array as JSON.stringify writes them: undefined and
\* functions become null.
JSONelements(items) ==
    IF Len(items) = 0 THEN ""
    ELSE LET e == JSONstringify(items[1])
             first == IF e = "undefined" THEN "null" ELSE e
         IN IF Len(items) = 1 THEN first
            ELSE first \o "," \o JSONelements(Tail(items))

\* The 0-based indices >= from at which pattern occurs in s.
Occurrences(s, pattern, from) ==
    {i \in from..(Len(s) - Len(pattern)) : SubSeq(s, i + 1, i + Len(pattern)) = pattern}

Min(S) == CHOOSE x \in S : \A y \in S : x <= y

\* RegExp.prototype.test for a regular expression whose source is a literal
\* text: a global expression searches from lastIndex and moves it.
RegExpTest(re, s) ==
    LET from == IF re.global THEN re.lastIndex ELSE 0
        found == Occurrences(s, re.source, from)
    IN IF found = {}
       THEN [result |-> FALSE, lastIndex |-> IF re.global THEN 0 ELSE re.lastIndex]
       ELSE [result |-> TRUE,
             lastIndex |-> IF re.global THEN Min(found) + Len(re.source)
                           ELSE re.lastIndex]

\* `${v}` of a template literal, for the values a command spec can be: a
\* string as it is, a regular expression as /source/flags (lastIndex is not
\* part of it), a function as its source text.
TemplateString(v) ==
    CASE v.type = "string" -> v.val
      [] v.type = "regexp" -> "/" \o v.source \o "/" \o (IF v.global THEN "g" ELSE "")
      [] v.type = "function" -> "function " \o v.name

\* The order in which util.inspect lists the properties of the objects here.
inspectOrder == <<"cwd", "shell", "uid", "timeout", "stdio", "env", "FOO", "BAR">>

\* util.inspect of an array of strings: [ 'a', 'b' ], and [] when empty.
RECURSIVE inspectStrings(_)
inspectStrings(items) ==
    IF Len(items) = 0 THEN ""
    ELSE IF Len(items) = 1 THEN "'" \o items[1] \o "'"
    ELSE "'" \o items[1] \o "', " \o inspectStrings(Tail(items))

\* util.inspect of a value; an object's properties are listed from position
\* n of inspectOrder on, an array's elements one after the other.
RECURSIVE inspect(_)
RECURSIVE inspectItems(_)
RECURSIVE inspectProps(_, _)
inspect(v) ==
    CASE v.type = "undefined" -> "undefined"
      [] v.type = "null" -> "null"
      [] v.type = "boolean" -> v.val
      [] v.type = "number" -> v.val
      [] v.type = "string" -> "'" \o v.val \o "'"
      [] v.type = "function" -> "[Function: " \o v.name \o "]"
      [] v.type = "array" ->
            IF Len(v.items) = 0 THEN "[]" ELSE "[ " \o inspectItems(v.items) \o " ]"
      [] v.type = "object" ->
            IF DOMAIN v.props = {} THEN "{}" ELSE "{ " \o inspectProps(v.props, 1) \o " }"

inspectItems(items) ==
    IF Len(items) = 1 THEN inspect(items[1])
    ELSE inspect(items[1]) \o ", " \o inspectItems(Tail(items))

inspectProps(props, n) ==
    IF n > Len(inspectOrder) THEN ""
    ELSE IF inspectOrder[n] \notin DOMAIN props THEN inspectProps(props, n + 1)
    ELSE LET rest == inspectProps(props, n + 1)
             this == inspectOrder[n] \o ": " \o inspect(props[inspectOrder[n]])
         IN IF rest = "" THEN this ELSE this \o ", " \o rest

----------------------------------------------------------------------------
(* The functions a test author hands to spawk: predicates for the three    *)
(* specs and deferred computations for the four mocks.  Call gives the     *)
(* completion of fn.call(thisArg, ...arguments).                           *)

Return(v) == [kind |-> "return", value |-> v]
Throw(v) == [kind |-> "throw", value |-> v]

LengthOf(items) ==
    CASE Len(items) = 0 -> Num("0")
      [] Len(items) = 1 -> Num("1")
      [] Len(items) = 2 -> Num("2")
      [] OTHER -> Num("many")

Call(fn, thisArg, arguments) ==
    CASE fn.name = "commandIsGit" -> Return(Bool(arguments[1] = "git"))
      [] fn.name = "argsLength" -> Return(LengthOf(arguments[2]))
      [] fn.name = "firstArgIsA" ->
            Return(Bool(Len(arguments[1]) > 0 /\ arguments[1][1] = "a"))
      [] fn.name = "cwdOrUndefined" -> Return(Get(arguments[1], "cwd"))
      [] fn.name = "one" -> Return(Num("1"))
      [] fn.name = "boom" -> Throw(Error("boom"))
      [] fn.name = "joinArgs" ->
            IF thisArg.calledWith.type = "undefined" THEN Throw(Error("TypeError"))
            ELSE Return(Str(toString(thisArg.calledWith.args)))
      [] fn.name = "rejects" -> Return(Promise("rejected", Error("rejected")))
      [] fn.name = "never" -> Return(Promise("pending", undefined))
      [] fn.name = "later" -> Return(Promise("fulfilled", Str("SIGKILL")))

----------------------------------------------------------------------------
(* compareOptions                                                          *)

serializable ==
    <<"cwd", "argv0", "detached", "uid", "gid", "serialization",
      "shell", "windowsVerbatimArguments", "windowsHide", "stdio">>

\* The loop returning after its first attribute.
compareSerializable_firstOnly(defined, called, n) ==
    ~(/\ hasOwnProperty(defined, serializable[n])
      /\ JSONstringify(defined[serializable[n]])
           # JSONstringify(Get(called, serializable[n])))

\* The loop over serializable from position n on: FALSE at the first
\* attribute the spec owns whose JSON text differs from the call's.
RECURSIVE compareSerializable(_, _, _)
compareSerializable(defined, called, n) ==
    IF n > Len(serializable) THEN TRUE
    ELSE IF /\ hasOwnProperty(defined, serializable[n])
            /\ JSONstringify(defined[serializable[n]])
                 # JSONstringify(Get(called, serializable[n]))
         THEN FALSE
         ELSE compareSerializable(defined, called, n + 1)

\* The env step demanding the call's env to be the spec's env, key for key.
compareEnv_exact(defined, called) ==
    IF hasOwnProperty(defined, "env")
    THEN IF ~hasOwnProperty(called, "env") THEN FALSE
         ELSE defined["env"] = called["env"]
    ELSE TRUE

\* The env step: every key of the spec's env has an identical value in the
\* call's env.
compareEnv(defined, called) ==
    IF hasOwnProperty(defined, "env")
    THEN IF ~hasOwnProperty(called, "env") THEN FALSE
         ELSE \A envKey \in DOMAIN defined["env"].props :
                StrictEquals(defined["env"].props[envKey],
                             Get(called["env"].props, envKey))
    ELSE TRUE

compareOptions(defined, called) ==
    IF ~compareSerializable(defined, called, 1) THEN FALSE
    ELSE compareEnv(defined, called)

----------------------------------------------------------------------------
(* The API facade                                                          *)

API_called(self) == self.called

API_calledWith(self) ==
    IF API_called(self) THEN self.calledWith ELSE undefined

\* The description without the test of called: the prefix is never added.
API_description_noPrefix(self) ==
    LET d1 == "called spawk interceptor for command: '"
                \o TemplateString(self.command) \o "'"
        d2 == IF ToBoolean(self.args)
              THEN d1 \o ", args: "
                      \o (IF self.args.type = "array"
                          THEN IF Len(self.args.items) = 0 THEN "[]"
                               ELSE "[ " \o inspectStrings(self.args.items) \o " ]"
                          ELSE inspect(self.args))
              ELSE d1
    IN IF ToBoolean(self.options) THEN d2 \o ", options: " \o inspect(self.options)
       ELSE d2

\* get description
API_description(self) ==
    LET d0 == "called spawk interceptor for command: '"
                \o TemplateString(self.command) \o "'"
        d1 == IF ~API_called(self) THEN "un" \o d0 ELSE d0
        d2 == IF ToBoolean(self.args)
              THEN d1 \o ", args: "
                      \o (IF self.args.type = "array"
                          THEN IF Len(self.args.items) = 0 THEN "[]"
                               ELSE "[ " \o inspectStrings(self.args.items) \o " ]"
                          ELSE inspect(self.args))
              ELSE d1
    IN IF ToBoolean(self.options) THEN d2 \o ", options: " \o inspect(self.options)
       ELSE d2

\* The facade as a deferred computation or a predicate sees it (its `this`).
API(self) ==
    [command |-> self.command, args |-> self.args, options |-> self.options,
     called |-> API_called(self), calledWith |-> API_calledWith(self)]

----------------------------------------------------------------------------
(* cp.ChildProcess and stream.PassThrough                                  *)

\* new cp.ChildProcess(): Node's constructor leaves exitCode and signalCode
\* null and connected false; the streams are set by run.  events are the
\* events emitted so far, and observed[n] is the handle as a listener of
\* events[n] finds it when emit calls it.
ChildProcess ==
    [stdin |-> undefined, stdout |-> undefined, stderr |-> undefined,
     spawnargs |-> undefined, exitCode |-> null, signalCode |-> null,
     connected |-> FALSE, events |-> <<>>, observed |-> <<>>]

\* new stream.PassThrough({ autoDestroy: true }); ends counts the calls of end.
PassThrough ==
    [type |-> "stream", chunks |-> <<>>, ended |-> FALSE, ends |-> 0, error |-> ""]

\* The fields of a handle a listener can read.
Seen(child) ==
    [exitCode |-> child.exitCode, signalCode |-> child.signalCode,
     connected |-> child.connected, spawnargs |-> child.spawnargs,
     stdout |-> child.stdout, stderr |-> child.stderr]

----------------------------------------------------------------------------
(* Interceptor                                                             *)

\* constructor (command, args, options); mocks.child is the handle `child`.
\* this.child and this.calledWith are not set yet: child 0 names no handle.
Interceptor(command, args, options, child) ==
    [mocks |-> [exitCode |-> Num("0"), signal |-> null,
                stdout |-> undefined, stderr |-> undefined, child |-> child],
     command |-> command, args |-> args, options |-> options,
     called |-> FALSE, calledWith |-> undefined, child |-> 0]

\* matchCommand without the RegExp branch: the expression is compared as a
\* literal.
matchCommand_noRegExp(self, command, args, options) ==
    IF self.command.type = "function"
    THEN [ok |-> ToBoolean(Call(self.command, API(self), <<command, args, options>>).value),
          command |-> self.command]
    ELSE [ok |-> StrictEquals(Str(command), self.command), command |-> self.command]

\* Step 1 of match: the command spec.  A regular expression is tested, and
\* the test moves the lastIndex of a global one.
matchCommand(self, command, args, options) ==
    IF self.command.type = "function"
    THEN [ok |-> ToBoolean(Call(self.command, API(self), <<command, args, options>>).value),
          command |-> self.command]
    ELSE IF self.command.type = "regexp"
    THEN LET t == RegExpTest(self.command, command)
         IN [ok |-> t.result,
             command |-> [self.command EXCEPT !.lastIndex = t.lastIndex]]
    ELSE [ok |-> StrictEquals(Str(command), self.command), command |-> self.command]

\* Step 2 of match: the args spec.
matchArgs(self, args) ==
    IF self.args.type = "function"
    THEN ToBoolean(Call(self.args, API(self), <<args>>).value)
    ELSE ~(ToBoolean(self.args) /\ toString(self.args.items) # toString(args))

\* Step 3 of match: the options spec.
matchOptions(self, options) ==
    IF self.options.type = "function"
    THEN ToBoolean(Call(self.options, API(self), <<options>>).value)
    ELSE ~(ToBoolean(self.options) /\ ~compareOptions(self.options.props, options))

\* match without its first test: an interceptor that was called still matches.
match_ignoresCalled(self, command, args, options) ==
    LET c == matchCommand(self, command, args, options)
        after == [self EXCEPT !.command = c.command]
    IN [value |-> c.ok /\ matchArgs(self, args) /\ matchOptions(self, options),
        self |-> after]

\* match (command, args, options): the value returned and the interceptor
\* as the call leaves it.
match(self, command, args, options) ==
    IF self.called THEN [value |-> FALSE, self |-> self]
    ELSE LET c == matchCommand(self, command, args, options)
             after == [self EXCEPT !.command = c.command]
         IN IF ~c.ok THEN [value |-> FALSE, self |-> after]
            ELSE IF ~matchArgs(self, args) THEN [value |-> FALSE, self |-> after]
            ELSE IF ~matchOptions(self, options) THEN [value |-> FALSE, self |-> after]
            ELSE [value |-> TRUE, self |-> after]

\* The getters exitCode, signal, stdout, stderr: a function mock is called
\* with the facade as `this`, anything else is returned as it is.
getMock(self, field) ==
    IF self.mocks[field].type = "function"
    THEN Call(self.mocks[field], API(self), <<>>)
    ELSE Return(self.mocks[field])

\* A setter that calls a function it is given and stores what it returns.
setMock_eager(self, field, value) ==
    [self EXCEPT !.mocks[field] = IF value.type = "function"
                                  THEN Call(value, API(self), <<>>).value
                                  ELSE value]

\* The setters exitCode, signal, stdout, stderr.
setMock(self, field, value) == [self EXCEPT !.mocks[field] = value]

\* run recording the call without its args.
run_dropsArgs(self, id, command, args, options, child) ==
    [self |-> [self EXCEPT !.called = TRUE,
                           !.calledWith = [type |-> "object", command |-> command,
                                           args |-> <<>>, options |-> options],
                           !.child = child],
     child |-> LET c == [ChildProcess EXCEPT !.stdin = PassThrough,
                                             !.stdout = PassThrough,
                                             !.stderr = PassThrough,
                                             !.spawnargs = args]
               IN [c EXCEPT !.events = <<[name |-> "spawn"]>>,
                            !.observed = <<Seen(c)>>],
     task |-> [self |-> id, returned |-> child, pc |-> "nextTick",
               values |-> <<>>, error |-> undefined]]

\* The synchronous part of run (command, args, options): the interceptor as
\* run leaves it, the handle it allocates and returns (whose identity is
\* `child`), and the callback it gives to process.nextTick.
run(self, id, command, args, options, child) ==
    [self |-> [self EXCEPT !.called = TRUE,
                           !.calledWith = [type |-> "object", command |-> command,
                                           args |-> args, options |-> options],
                           !.child = child],
     child |-> LET c == [ChildProcess EXCEPT !.stdin = PassThrough,
                                             !.stdout = PassThrough,
                                             !.stderr = PassThrough,
                                             !.spawnargs = args]
               IN [c EXCEPT !.events = <<[name |-> "spawn"]>>,
                            !.observed = <<Seen(c)>>],
     task |-> [self |-> id, returned |-> child, pc |-> "nextTick",
               values |-> <<>>, error |-> undefined]]

mockFields == <<"exitCode", "signal", "stdout", "stderr">>

\* The array literal [this.exitCode, this.signal, this.stdout, this.stderr]:
\* the four getters in order.  The first one that throws ends the evaluation.
readMocks(self) ==
    LET got == [n \in 1..4 |-> getMock(self, mockFields[n])]
        thrown == {n \in 1..4 : got[n].kind = "throw"}
    IN IF thrown = {} THEN Return([n \in 1..4 |-> got[n].value])
       ELSE Throw(got[Min(thrown)].value)

\* callback with a catch around the getters: a mock that throws gives null.
callback_swallows(task, self) ==
    LET got == [n \in 1..4 |-> getMock(self, mockFields[n])]
    IN [task EXCEPT !.pc = "await",
                    !.values = [n \in 1..4 |-> IF got[n].kind = "throw" THEN null
                                               ELSE got[n].value]]

\* callback reading the mocks as the constructor left them, whatever the
\* setters have stored since.
callback_defaults(task, self) ==
    LET read == readMocks([self EXCEPT !.mocks.exitCode = Num("0"),
                                       !.mocks.signal = null,
                                       !.mocks.stdout = undefined,
                                       !.mocks.stderr = undefined])
    IN IF read.kind = "throw"
       THEN [task EXCEPT !.pc = "rejected", !.error = read.value]
       ELSE [task EXCEPT !.pc = "await", !.values = read.value]

\* The callback up to its await: the mocks are read, and the async function
\* either rejects at once or waits for Promise.all.
callback(task, self) ==
    LET read == readMocks(self)
    IN IF read.kind = "throw"
       THEN [task EXCEPT !.pc = "rejected", !.error = read.value]
       ELSE [task EXCEPT !.pc = "await", !.values = read.value]

isPromise(v) == v.type = "promise"

\* A Promise.all that never settles.
settled_never(values) == FALSE

\* Promise.all is settled once no value is a pending promise.
settled(values) == \A n \in 1..4 : ~(isPromise(values[n]) /\ values[n].state = "pending")

rejections(values) == {n \in 1..4 : isPromise(values[n]) /\ values[n].state = "rejected"}

\* What await Promise.all(values) gives: the values, promises replaced by
\* what they fulfil with.
awaited(values) ==
    [n \in 1..4 |-> IF isPromise(values[n]) THEN values[n].value ELSE values[n]]

\* stream.write(chunk) and stream.end()
write(stream, chunk) ==
    IF stream.ended THEN [stream EXCEPT !.error = "ERR_STREAM_WRITE_AFTER_END"]
    ELSE [stream EXCEPT !.chunks = Append(@, chunk)]

end(stream) == [stream EXCEPT !.ended = TRUE, !.ends = @ + 1]

\* child.emit(name, code, signal): the listeners are called at once, with the
\* handle as it is.  (c is bound to the value of child, so that child is
\* evaluated once.)
emit(child, name, code, signal) ==
    CHOOSE emitted \in
      {[c EXCEPT !.events = Append(@, [name |-> name, code |-> code, signal |-> signal]),
                 !.observed = Append(@, Seen(c))] : c \in {child}} : TRUE

\* resolve emitting close before exit.
resolve_closeFirst(child, exitCode, signal, stdout, stderr) ==
    LET c1 == [child EXCEPT !.exitCode = exitCode, !.signalCode = signal,
                            !.connected = FALSE]
        c2 == [c1 EXCEPT !.stdout = end(@), !.stderr = end(@)]
    IN emit(emit(c2, "close", exitCode, signal), "exit", exitCode, signal)

\* resolve emitting close without the arguments of exit.
resolve_closeNoArgs(child, exitCode, signal, stdout, stderr) ==
    LET c1 == [child EXCEPT !.exitCode = exitCode, !.signalCode = signal,
                            !.connected = FALSE]
        c2 == [c1 EXCEPT !.stdout = end(@), !.stderr = end(@)]
    IN emit(emit(c2, "exit", exitCode, signal), "close", null, null)

\* resolve emitting exit and close before it sets the fields of the handle.
resolve_emitFirst(child, exitCode, signal, stdout, stderr) ==
    LET c1 == emit(emit(child, "exit", exitCode, signal), "close", exitCode, signal)
        c2 == [c1 EXCEPT !.exitCode = exitCode, !.signalCode = signal,
                         !.connected = FALSE]
        c3 == IF ToBoolean(stdout) THEN [c2 EXCEPT !.stdout = write(@, stdout)] ELSE c2
        c4 == [c3 EXCEPT !.stdout = end(@)]
        c5 == IF ToBoolean(stderr) THEN [c4 EXCEPT !.stderr = write(@, stderr)] ELSE c4
    IN [c5 EXCEPT !.stderr = end(@)]

\* resolve emitting exit before it writes and ends the streams.
resolve_exitBeforeEnd(child, exitCode, signal, stdout, stderr) ==
    LET c1 == [child EXCEPT !.exitCode = exitCode, !.signalCode = signal,
                            !.connected = FALSE]
        c2 == emit(c1, "exit", exitCode, signal)
        c3 == IF ToBoolean(stdout) THEN [c2 EXCEPT !.stdout = write(@, stdout)] ELSE c2
        c4 == [c3 EXCEPT !.stdout = end(@)]
        c5 == IF ToBoolean(stderr) THEN [c4 EXCEPT !.stderr = write(@, stderr)] ELSE c4
        c6 == [c5 EXCEPT !.stderr = end(@)]
    IN emit(c6, "close", exitCode, signal)

\* The callback after its await, on the handle this.child names then.
resolve(child, exitCode, signal, stdout, stderr) ==
    LET c1 == [child EXCEPT !.exitCode = exitCode, !.signalCode = signal,
                            !.connected = FALSE]
        c2 == IF ToBoolean(stdout) THEN [c1 EXCEPT !.stdout = write(@, stdout)] ELSE c1
        c3 == [c2 EXCEPT !.stdout = end(@)]
        c4 == IF ToBoolean(stderr) THEN [c3 EXCEPT !.stderr = write(@, stderr)] ELSE c3
        c5 == [c4 EXCEPT !.stderr = end(@)]
        c6 == emit(c5, "exit", exitCode, signal)
    IN emit(c6, "close", exitCode, signal)

----------------------------------------------------------------------------
(* Requests and registrations the model draws from                         *)

MaxArgs == 2

ArgStrings == {"", "a", "b", "a,b"}

RECURSIVE SeqsUpTo(_, _)
SeqsUpTo(S, n) ==
    IF n = 0 THEN {<<>>}
    ELSE LET shorter == SeqsUpTo(S, n - 1)
         IN shorter \cup {Append(s, x) : s \in {t \in shorter : Len(t) = n - 1}, x \in S}

Commands == {"ls", "lsls", "git"}

ArgLists == SeqsUpTo(ArgStrings, MaxArgs)

OptionObjects ==
    { <<>>,
      "cwd" :> Str("/tmp"),
      "cwd" :> Str("/other"),
      ("cwd" :> Str("/tmp")) @@ ("shell" :> Bool(TRUE)),
      "uid" :> null,
      "timeout" :> Num("9"),
      "stdio" :> Array(<<Str("pipe"), null>>),
      "env" :> Object(("FOO" :> Str("1")) @@ ("BAR" :> Str("2"))),
      "env" :> Object("FOO" :> Str("2")),
      "env" :> Object("BAR" :> Str("2")) }

CommandSpecs ==
    { Str("ls"), RegExp("ls", FALSE), RegExp("ls", TRUE),
      Function("commandIsGit"), Function("argsLength") }

ArgsSpecs ==
    { undefined, Array(<<>>), Array(<<"a", "b">>), Array(<<"a,b">>),
      Function("firstArgIsA") }

\* The requests and registrations of the lifecycle specification.
Requests ==
    { [command |-> "ls", args |-> <<>>, options |-> <<>>],
      [command |-> "ls", args |-> <<"a", "b">>, options |-> <<>>],
      [command |-> "git", args |-> <<>>, options |-> <<>>] }

Registrations ==
    { [command |-> Str("ls"), args |-> undefined, options |-> undefined],
      [command |-> RegExp("ls", TRUE), args |-> Array(<<"a", "b">>),
       options |-> undefined] }

\* What the facade's setters are called with.
MockValues ==
    [exitCode |-> {Function("one"), Function("boom")},
     signal |-> {Str("SIGTERM"), Function("rejects")},
     stdout |-> {Str("out"), Function("joinArgs")},
     stderr |-> {Str("err"), Function("never")}]

OptionsSpecs ==
    { undefined,
      Object(<<>>),
      Object("cwd" :> Str("/tmp")),
      Object(("cwd" :> Str("/tmp")) @@ ("shell" :> Bool(TRUE))),
      Object("uid" :> Num("NaN")),
      Object("timeout" :> Num("5")),
      Object("stdio" :> Array(<<Str("pipe"), undefined>>)),
      Object("env" :> Object("FOO" :> Str("1"))),
      Function("cwdOrUndefined") }

----------------------------------------------------------------------------
(* Operations                                                              *)

\* interceptor.match(command, args, options) on the incoming request, by
\* whoever probes the interceptor.
Match(i) ==
    LET m == match(interceptors[i], incoming.command, incoming.args, incoming.options)
    IN /\ interceptors' = [interceptors EXCEPT ![i] = m.self]
       /\ ret' = [op |-> "match", i |-> i, value |-> m.value]
       /\ UNCHANGED <<handles, tasks, incoming>>

\* The host's lookup: the first interceptor of the pool, from position n on,
\* whose match succeeds (0: none), and the pool as the calls to match leave it.
RECURSIVE find(_, _, _, _, _)
find(pool, n, command, args, options) ==
    IF n > Len(pool) THEN [found |-> 0, pool |-> pool]
    ELSE LET m == match(pool[n], command, args, options)
             tried == [pool EXCEPT ![n] = m.self]
         IN IF m.value THEN [found |-> n, pool |-> tried]
            ELSE find(tried, n + 1, command, args, options)

\* A spawn request served by the host: match, then run on the interceptor
\* that matched; the request is unmatched when there is none.
Spawn ==
    LET f == find(interceptors, 1, incoming.command, incoming.args, incoming.options)
        child == Len(handles) + 1
        r == run(f.pool[f.found], f.found, incoming.command, incoming.args,
                 incoming.options, child)
    IN IF f.found = 0
       THEN /\ interceptors' = f.pool
            /\ ret' = [op |-> "spawn", i |-> 0, child |-> 0]
            /\ UNCHANGED <<handles, tasks, incoming>>
       ELSE /\ interceptors' = [f.pool EXCEPT ![f.found] = r.self]
            /\ handles' = Append(handles, r.child)
            /\ tasks' = Append(tasks, r.task)
            /\ ret' = [op |-> "spawn", i |-> f.found, child |-> child]
            /\ UNCHANGED incoming

\* api.exit(code), api.signal(signal), api.stdout(stdout), api.stderr(stderr)
Set(i, field, value) ==
    /\ interceptors' = [interceptors EXCEPT ![i] = setMock(@, field, value)]
    /\ ret' = [op |-> "set"]
    /\ UNCHANGED <<handles, tasks, incoming>>

\* process.nextTick runs the oldest callback that has not run yet.
Tick(k) ==
    /\ k \in DOMAIN tasks
    /\ tasks[k].pc = "nextTick"
    /\ \A j \in 1..(k - 1) : tasks[j].pc # "nextTick"
    /\ tasks' = [tasks EXCEPT ![k] = callback(@, interceptors[tasks[k].self])]
    /\ ret' = [op |-> "callback"]
    /\ UNCHANGED <<interceptors, handles, incoming>>

\* The continuation writing to one handle shared by all the interceptors: the
\* handle allocated last.
Settle_sharedChild(k) ==
    /\ k \in DOMAIN tasks
    /\ tasks[k].pc = "await"
    /\ settled(tasks[k].values)
    /\ LET values == tasks[k].values
           v == awaited(values)
           child == Len(handles)
       IN IF rejections(values) # {}
          THEN /\ tasks' = [tasks EXCEPT ![k].pc = "rejected",
                                         ![k].error = values[Min(rejections(values))].value]
               /\ UNCHANGED handles
          ELSE /\ tasks' = [tasks EXCEPT ![k].pc = "done", ![k].values = v]
               /\ handles' = [handles EXCEPT ![child] = resolve(@, v[1], v[2], v[3], v[4])]
    /\ ret' = [op |-> "callback"]
    /\ UNCHANGED <<interceptors, incoming>>

\* The continuation writing to the handle the constructor made, mocks.child.
Settle_mocksChild(k) ==
    /\ k \in DOMAIN tasks
    /\ tasks[k].pc = "await"
    /\ settled(tasks[k].values)
    /\ LET values == tasks[k].values
           v == awaited(values)
           child == interceptors[tasks[k].self].mocks.child
       IN IF rejections(values) # {}
          THEN /\ tasks' = [tasks EXCEPT ![k].pc = "rejected",
                                         ![k].error = values[Min(rejections(values))].value]
               /\ UNCHANGED handles
          ELSE /\ tasks' = [tasks EXCEPT ![k].pc = "done", ![k].values = v]
               /\ handles' = [handles EXCEPT ![child] = resolve(@, v[1], v[2], v[3], v[4])]
    /\ ret' = [op |-> "callback"]
    /\ UNCHANGED <<interceptors, incoming>>

\* Promise.all has settled and the callback continues after its await.
Settle(k) ==
    /\ k \in DOMAIN tasks
    /\ tasks[k].pc = "await"
    /\ settled(tasks[k].values)
    /\ LET values == tasks[k].values
           v == awaited(values)
           child == interceptors[tasks[k].self].child
       IN IF rejections(values) # {}
          THEN /\ tasks' = [tasks EXCEPT ![k].pc = "rejected",
                                         ![k].error = values[Min(rejections(values))].value]
               /\ UNCHANGED handles
          ELSE /\ tasks' = [tasks EXCEPT ![k].pc = "done", ![k].values = v]
               /\ handles' = [handles EXCEPT ![child] = resolve(@, v[1], v[2], v[3], v[4])]
    /\ ret' = [op |-> "callback"]
    /\ UNCHANGED <<interceptors, incoming>>

RunTick == \E k \in DOMAIN tasks : Tick(k)

RunSettle == \E k \in DOMAIN tasks : Settle(k)

\* The next request arrives from the normalizer.
Request(r) ==
    /\ incoming' = r
    /\ ret' = [op |-> "none"]
    /\ UNCHANGED <<interceptors, handles, tasks>>

\* api.description (and toString), read by whoever holds the facade.
Describe(i) ==
    /\ ret' = [op |-> "description", i |-> i,
               text |-> API_description(interceptors[i])]
    /\ UNCHANGED <<interceptors, handles, tasks, incoming>>

----------------------------------------------------------------------------
(* The lifecycle: one registered interceptor, configured through the       *)
(* facade, probed, spawned and resolved in every order the host allows.    *)

Init ==
    /\ \E g \in Registrations :
         interceptors = <<Interceptor(g.command, g.args, g.options, 1)>>
    /\ handles = <<ChildProcess>>
    /\ tasks = <<>>
    /\ incoming \in Requests
    /\ ret = [op |-> "none"]

Next ==
    \/ \E r \in Requests : Request(r)
    \/ \E i \in DOMAIN interceptors : Match(i)
    \/ Spawn
    \/ \E i \in DOMAIN interceptors, n \in 1..4 :
         \E value \in MockValues[mockFields[n]] : Set(i, mockFields[n], value)
    \/ RunTick
    \/ RunSettle

Spec == Init /\ [][Next]_vars

\* The host runs the nextTick queue and the promise jobs whenever there are
\* any: a callback that can run, and an await that has settled, do run.
FairSpec == Spec /\ WF_vars(RunTick) /\ WF_vars(RunSettle)

----------------------------------------------------------------------------
(* Matching alone: one interceptor of any registered shape, asked about    *)
(* one request of any shape, again and again.                              *)

InitMatch ==
    /\ \E c \in CommandSpecs, a \in ArgsSpecs, o \in OptionsSpecs :
         interceptors = <<Interceptor(c, a, o, 1)>>
    /\ handles = <<ChildProcess>>
    /\ tasks = <<>>
    /\ \E c \in Commands, a \in ArgLists, o \in OptionObjects :
         incoming = [command |-> c, args |-> a, options |-> o]
    /\ ret = [op |-> "none"]

NextMatch == \E i \in DOMAIN interceptors : Match(i)

SpecMatch == InitMatch /\ [][NextMatch]_vars

----------------------------------------------------------------------------
(* A pool: two registered interceptors, each with its own handle, serving  *)
(* the requests of the host in every order, their resolutions interleaved. *)

PoolRegistrations ==
    { [command |-> Str("ls"), args |-> undefined, options |-> undefined],
      [command |-> Str("ls"), args |-> Array(<<"a", "b">>), options |-> undefined],
      [command |-> RegExp("ls", TRUE), args |-> Array(<<"a", "b">>),
       options |-> undefined] }

PoolRequests ==
    { [command |-> "ls", args |-> <<>>, options |-> <<>>],
      [command |-> "ls", args |-> <<"a", "b">>, options |-> <<>>] }

\* What the facade's setters are called with in the pool.
PoolMockValues ==
    [exitCode |-> {Function("one")},
     stdout |-> {Function("joinArgs")}]

poolFields == <<"exitCode", "stdout">>

InitPool ==
    /\ \E g1 \in PoolRegistrations, g2 \in PoolRegistrations :
         interceptors = <<Interceptor(g1.command, g1.args, g1.options, 1),
                          Interceptor(g2.command, g2.args, g2.options, 2)>>
    /\ handles = <<ChildProcess, ChildProcess>>
    /\ tasks = <<>>
    /\ incoming \in PoolRequests
    /\ ret = [op |-> "none"]

NextPool ==
    \/ \E r \in PoolRequests : Request(r)
    \/ Spawn
    \/ \E i \in DOMAIN interceptors, n \in 1..2 :
         \E value \in PoolMockValues[poolFields[n]] : Set(i, poolFields[n], value)
    \/ RunTick
    \/ RunSettle

SpecPool == InitPool /\ [][NextPool]_vars

----------------------------------------------------------------------------
(* Describing: one interceptor of any registered shape, described before   *)
(* and after the request it was drawn with is served.                      *)

DescribeRequests ==
    { [command |-> "ls", args |-> <<"a", "b">>, options |-> "cwd" :> Str("/tmp")],
      [command |-> "git", args |-> <<>>, options |-> <<>>] }

InitDescribe ==
    /\ \E c \in CommandSpecs, a \in ArgsSpecs, o \in OptionsSpecs :
         interceptors = <<Interceptor(c, a, o, 1)>>
    /\ handles = <<ChildProcess>>
    /\ tasks = <<>>
    /\ incoming \in DescribeRequests
    /\ ret = [op |-> "none"]

NextDescribe ==
    \/ \E i \in DOMAIN interceptors : Describe(i)
    \/ Spawn
    \/ RunTick
    \/ RunSettle

SpecDescribe == InitDescribe /\ [][NextDescribe]_vars

----------------------------------------------------------------------------
(* Properties                                                              *)

\* The names of the events a handle has emitted, in order.
NamesIn(hs, h) == [n \in 1..Len(hs[h].events) |-> hs[h].events[n].name]

EventNames(h) == NamesIn(handles, h)

\* The handles run has returned.
Returned == {tasks[k].returned : k \in DOMAIN tasks}

\* Requests an exhausted interceptor is probed with.
Probes ==
    [command : Commands, args : {<<>>, <<"a", "b">>},
     options : {<<>>, "cwd" :> Str("/tmp")}]

\* C1: an interceptor whose called flag is true matches no triple; run sets
\* called in its own step, while its resolution is still waiting to run; no
\* step resets called; and a match issued after a run returns false.
C1_SingleUse ==
    /\ [](\A i \in DOMAIN interceptors :
            interceptors[i].called =>
              \A r \in Probes \cup {incoming} :
                ~match(interceptors[i], r.command, r.args, r.options).value)
    /\ [][(ret'.op = "spawn" /\ ret'.child # 0) =>
            /\ ~interceptors[ret'.i].called
            /\ interceptors'[ret'.i].called
            /\ tasks'[Len(tasks')].self = ret'.i
            /\ tasks'[Len(tasks')].pc = "nextTick"]_vars
    /\ [][\A i \in DOMAIN interceptors :
            interceptors[i].called => interceptors'[i].called]_vars
    /\ [][(ret'.op = "match" /\ interceptors[ret'.i].called) => ~ret'.value]_vars

\* C1 witness: after a run whose resolution is over, a match with the very
\* triple of the run has returned false.
C1_Witness ==
    /\ ret.op = "match"
    /\ ~ret.value
    /\ interceptors[ret.i].called
    /\ interceptors[ret.i].calledWith.command = incoming.command
    /\ interceptors[ret.i].calledWith.args = incoming.args
    /\ interceptors[ret.i].calledWith.options = incoming.options
    /\ \E k \in DOMAIN tasks : tasks[k].self = ret.i /\ tasks[k].pc = "done"

C3_ExitThenClose ==
    \A h \in DOMAIN handles :
      LET events == handles[h].events
      IN \A n \in 1..Len(events) :
           /\ events[n].name = "exit" =>
                /\ n < Len(events)
                /\ events[n + 1] = [name |-> "close", code |-> events[n].code,
                                    signal |-> events[n].signal]
           /\ events[n].name = "close" => (n > 1 /\ events[n - 1].name = "exit")

\* C3 witness: a handle has emitted exit with code 1 and signal SIGTERM.
C3_Witness ==
    \E h \in DOMAIN handles :
      \E n \in 1..Len(handles[h].events) :
        /\ handles[h].events[n].name = "exit"
        /\ handles[h].events[n].code = Num("1")
        /\ handles[h].events[n].signal = Str("SIGTERM")

\* The resolution of task k is complete: the handle run returned has the
\* resolved code and signal and has emitted exit and close.
Completed(k) ==
    /\ tasks[k].pc = "done"
    /\ handles[tasks[k].returned].exitCode = tasks[k].values[1]
    /\ handles[tasks[k].returned].signalCode = tasks[k].values[2]
    /\ EventNames(tasks[k].returned) = <<"spawn", "exit", "close">>

\* The mocks of an interceptor whose deferred computation throws.
Raises(self) ==
    {n \in 1..4 : /\ self.mocks[mockFields[n]].type = "function"
                  /\ Call(self.mocks[mockFields[n]], API(self), <<>>).kind = "throw"}

\* The values under await that are promises in the given state.
PromisesIn(values, state) ==
    {n \in 1..4 : values[n].type = "promise" /\ values[n].state = state}

\* The tasks that can still take a step: the callback has not run, or its
\* await waits for no promise that stays pending.
Runnable ==
    {k \in DOMAIN tasks :
       \/ tasks[k].pc = "nextTick"
       \/ tasks[k].pc = "await" /\ PromisesIn(tasks[k].values, "pending") = {}}

\* C4 as claimed: once run has been called, the resolution completes, for
\* every configuration of the four mocks.
C4_AlwaysCompletes ==
    (tasks # <<>>) ~> (\A k \in DOMAIN tasks : Completed(k))

\* C4 as amended: once run has been called, the resolution step runs and
\* runs to its end; it ends complete (code and signal set, exit and close
\* emitted) unless a deferred computation threw or returned a promise that
\* rejects, and it stays suspended only on a promise that never settles.
C4_CompletesUnlessFails ==
    /\ (Runnable # {}) ~> (Runnable = {})
    /\ [](\A k \in DOMAIN tasks : tasks[k].pc = "done" => Completed(k))
    /\ [](\A k \in DOMAIN tasks :
            tasks[k].pc \in {"nextTick", "await", "done", "rejected"})
    /\ [][\A k \in DOMAIN tasks :
            (tasks'[k].pc = "rejected" /\ tasks[k].pc # "rejected") =>
              \/ tasks[k].pc = "nextTick" /\ Raises(interceptors[tasks[k].self]) # {}
              \/ tasks[k].pc = "await" /\ PromisesIn(tasks[k].values, "rejected") # {}]_vars

\* C4 witness: a resolution whose exit code came from a deferred
\* computation is complete.
C4_Witness ==
    \E k \in DOMAIN tasks :
      /\ Completed(k)
      /\ interceptors[tasks[k].self].mocks.exitCode = Function("one")
      /\ tasks[k].values[1] = Num("1")

\* C5: a resolution step whose deferred computation throws, or whose
\* awaited promise rejects, fails with that very error and leaves the
\* handle as run returned it: no code, no signal, no write, no end, no exit
\* and no close; a failed step stays failed.
C5_FailurePropagates ==
    /\ [][\A k \in DOMAIN tasks :
            (/\ tasks[k].pc = "nextTick"
             /\ tasks'[k].pc # "nextTick"
             /\ Raises(interceptors[tasks[k].self]) # {}) =>
              /\ tasks'[k].pc = "rejected"
              /\ tasks'[k].error =
                   Call(interceptors[tasks[k].self].mocks[
                          mockFields[Min(Raises(interceptors[tasks[k].self]))]],
                        API(interceptors[tasks[k].self]), <<>>).value
              /\ handles' = handles]_vars
    /\ [][\A k \in DOMAIN tasks :
            (/\ tasks[k].pc = "await"
             /\ tasks'[k].pc # "await"
             /\ PromisesIn(tasks[k].values, "rejected") # {}) =>
              /\ tasks'[k].pc = "rejected"
              /\ \E n \in PromisesIn(tasks[k].values, "rejected") :
                   tasks'[k].error = tasks[k].values[n].value
              /\ handles' = handles]_vars
    /\ [][\A k \in DOMAIN tasks :
            tasks[k].pc = "rejected" => tasks'[k] = tasks[k]]_vars
    /\ [](\A k \in DOMAIN tasks :
            tasks[k].pc = "rejected" =>
              /\ tasks[k].error.type = "error"
              /\ EventNames(tasks[k].returned) = <<"spawn">>
              /\ handles[tasks[k].returned].exitCode = null
              /\ handles[tasks[k].returned].signalCode = null
              /\ handles[tasks[k].returned].stdout = PassThrough
              /\ handles[tasks[k].returned].stderr = PassThrough)

\* C5 witness: a resolution step has failed with the error its exit code
\* computation threw.
C5_Witness ==
    \E k \in DOMAIN tasks :
      /\ tasks[k].pc = "rejected"
      /\ tasks[k].error = Error("boom")
      /\ interceptors[tasks[k].self].mocks.exitCode = Function("boom")

\* C6: a call to match leaves called, calledWith, the mocks and the handle
\* of every interceptor as they were and allocates no handle; and a match
\* repeated on an uncalled interceptor with the same triple returns what the
\* match before it returned.
C6_MatchIsPure ==
    /\ [][ret'.op = "match" =>
            /\ handles' = handles
            /\ tasks' = tasks
            /\ \A i \in DOMAIN interceptors :
                 /\ interceptors'[i].called = interceptors[i].called
                 /\ interceptors'[i].calledWith = interceptors[i].calledWith
                 /\ interceptors'[i].mocks = interceptors[i].mocks
                 /\ interceptors'[i].child = interceptors[i].child]_vars
    /\ [][(/\ ret.op = "match"
           /\ ret'.op = "match"
           /\ ret'.i = ret.i
           /\ incoming' = incoming
           /\ ~interceptors'[ret.i].called) => ret'.value = ret.value]_vars

\* The triple of the incoming request as run records it.
IncomingTriple ==
    [type |-> "object", command |-> incoming.command, args |-> incoming.args,
     options |-> incoming.options]

\* C7: the facade's calledWith is undefined exactly while called is false;
\* the step that runs an interceptor makes it the triple of that run; and
\* from then on it stays that triple, whatever happens to the handle.
C7_CalledWith ==
    /\ [](\A i \in DOMAIN interceptors :
            (API_calledWith(interceptors[i]) = undefined) <=> ~interceptors[i].called)
    /\ [][(ret'.op = "spawn" /\ ret'.child # 0) =>
            API_calledWith(interceptors'[ret'.i]) = IncomingTriple]_vars
    /\ [][\A i \in DOMAIN interceptors :
            interceptors[i].called =>
              API_calledWith(interceptors'[i]) = API_calledWith(interceptors[i])]_vars

\* C7 witness: the resolution is over and calledWith still shows the triple
\* ("ls", ["a", "b"], {}) of the run.
C7_Witness ==
    \E k \in DOMAIN tasks :
      /\ tasks[k].pc = "done"
      /\ API_calledWith(interceptors[tasks[k].self]) =
           [type |-> "object", command |-> "ls", args |-> <<"a", "b">>,
            options |-> <<>>]

\* The command spec of self accepts request r: a literal equals the
\* command; a regular expression occurs in it (a global one, from its
\* lastIndex on); a predicate returns a truthy value for the triple.
CommandAccepts(self, r) ==
    CASE self.command.type = "string" -> self.command.val = r.command
      [] self.command.type = "regexp" ->
            \E n \in (IF self.command.global THEN self.command.lastIndex ELSE 0)
                       ..(Len(r.command) - Len(self.command.source)) :
              SubSeq(r.command, n + 1, n + Len(self.command.source))
                = self.command.source
      [] self.command.type = "function" ->
            ToBoolean(Call(self.command, API(self),
                           <<r.command, r.args, r.options>>).value)

\* C8: on an uncalled interceptor with no args spec and no options spec,
\* match returns true exactly when the command spec accepts the command.
C8_CommandMatching ==
    [][(/\ ret'.op = "match"
        /\ ~interceptors[ret'.i].called
        /\ interceptors[ret'.i].args.type = "undefined"
        /\ interceptors[ret'.i].options.type = "undefined") =>
          ret'.value = CommandAccepts(interceptors[ret'.i], incoming)]_vars

\* C8 witness: a regular expression spec has matched a command that is not
\* its source text.
C8_Witness ==
    /\ ret.op = "match"
    /\ ret.value
    /\ interceptors[ret.i].command.type = "regexp"
    /\ interceptors[ret.i].args.type = "undefined"
    /\ interceptors[ret.i].options.type = "undefined"
    /\ incoming.command = "lsls"

\* C9: on an uncalled interceptor whose command matches, with a literal args
\* spec and no options spec, match returns true exactly when the incoming
\* args are the spec's: the same length and the same string at every
\* position.
C9_ArgsElementwise ==
    [][(/\ ret'.op = "match"
        /\ ~interceptors[ret'.i].called
        /\ interceptors[ret'.i].args.type = "array"
        /\ interceptors[ret'.i].options.type = "undefined"
        /\ CommandAccepts(interceptors[ret'.i], incoming)) =>
          ret'.value = (incoming.args = interceptors[ret'.i].args.items)]_vars

\* Every key of the env of the spec is in the env of the call with the same
\* value.
EnvSubset(defined, called) ==
    \A envKey \in DOMAIN defined.props :
      /\ envKey \in DOMAIN called.props
      /\ defined.props[envKey] = called.props[envKey]

\* An uncalled interceptor with an options mapping whose command and args
\* steps accept the incoming request.
OptionsDecide(self) ==
    /\ ~self.called
    /\ self.options.type = "object"
    /\ CommandAccepts(self, incoming)
    /\ matchArgs(self, incoming.args)

\* C10 as claimed: match returns true exactly when every key of the options
\* spec is a key of the incoming options with an equal value (env: key by
\* key).
C10_EveryKeyEqual ==
    [][(ret'.op = "match" /\ OptionsDecide(interceptors[ret'.i])) =>
          ret'.value =
            \A key \in DOMAIN interceptors[ret'.i].options.props :
              /\ key \in DOMAIN incoming.options
              /\ IF key = "env"
                 THEN EnvSubset(interceptors[ret'.i].options.props[key],
                                incoming.options[key])
                 ELSE interceptors[ret'.i].options.props[key]
                        = incoming.options[key]]_vars

RecognizedKeys ==
    {"cwd", "argv0", "detached", "uid", "gid", "serialization", "shell",
     "windowsVerbatimArguments", "windowsHide", "stdio"}

\* C10 as amended: match returns true exactly when every one of the ten
\* recognized keys that the options spec owns has, in the spec and in the
\* incoming options, the same JSON text (a missing key has none), and the
\* env of the spec, if any, is matched key by key; the other keys of the
\* spec, and the keys of the incoming options outside the spec, are ignored.
C10_RecognizedKeysEqual ==
    [][(ret'.op = "match" /\ OptionsDecide(interceptors[ret'.i])) =>
          ret'.value =
            /\ \A key \in DOMAIN interceptors[ret'.i].options.props \cap RecognizedKeys :
                 JSONstringify(interceptors[ret'.i].options.props[key])
                   = JSONstringify(Get(incoming.options, key))
            /\ "env" \in DOMAIN interceptors[ret'.i].options.props =>
                 /\ "env" \in DOMAIN incoming.options
                 /\ EnvSubset(interceptors[ret'.i].options.props["env"],
                              incoming.options["env"])]_vars

\* C10 witness: the spec {cwd: "/tmp"} has matched the options
\* {cwd: "/tmp", shell: true}.
C10_Witness ==
    /\ ret.op = "match"
    /\ ret.value
    /\ interceptors[ret.i].options = Object("cwd" :> Str("/tmp"))
    /\ incoming.options = ("cwd" :> Str("/tmp")) @@ ("shell" :> Bool(TRUE))

\* The recognized keys the options spec of self owns have, in the spec and in
\* the incoming options, the same JSON text.
RecognizedAgree(self) ==
    \A key \in DOMAIN self.options.props \cap RecognizedKeys :
      JSONstringify(self.options.props[key]) = JSONstringify(Get(incoming.options, key))

\* C11: when the options spec has an env, and match gets as far as the env
\* step, match returns true exactly when the incoming options have an env
\* in which every key of the spec's env has the spec's value: a missing key,
\* another value or no env at all fail, and the keys of the incoming env
\* outside the spec do not count.
C11_EnvKeyWise ==
    [][(/\ ret'.op = "match"
        /\ OptionsDecide(interceptors[ret'.i])
        /\ "env" \in DOMAIN interceptors[ret'.i].options.props
        /\ RecognizedAgree(interceptors[ret'.i])) =>
          /\ ret'.value =
                /\ "env" \in DOMAIN incoming.options
                /\ EnvSubset(interceptors[ret'.i].options.props["env"],
                             incoming.options["env"])
          /\ "env" \notin DOMAIN incoming.options => ~ret'.value
          /\ ("env" \in DOMAIN incoming.options /\ ret'.value) =>
                \A envKey \in DOMAIN interceptors[ret'.i].options.props["env"].props :
                  /\ envKey \in DOMAIN incoming.options["env"].props
                  /\ incoming.options["env"].props[envKey]
                       = interceptors[ret'.i].options.props["env"].props[envKey]]_vars

\* C11 witness: the spec {env: {FOO: "1"}} has matched the options
\* {env: {FOO: "1", BAR: "2"}}.
C11_Witness ==
    /\ ret.op = "match"
    /\ ret.value
    /\ interceptors[ret.i].options = Object("env" :> Object("FOO" :> Str("1")))
    /\ incoming.options = "env" :> Object(("FOO" :> Str("1")) @@ ("BAR" :> Str("2")))

\* An interceptor with no args spec accepts every args, and one with no
\* options spec every options: its match is decided by the other steps.
UnspecifiedAccepts ==
    [][(/\ ret'.op = "match"
        /\ ~interceptors[ret'.i].called
        /\ CommandAccepts(interceptors[ret'.i], incoming)) =>
          /\ interceptors[ret'.i].args.type = "undefined" =>
                ret'.value = matchOptions(interceptors[ret'.i], incoming.options)
          /\ interceptors[ret'.i].options.type = "undefined" =>
                ret'.value = matchArgs(interceptors[ret'.i], incoming.args)
          /\ (/\ interceptors[ret'.i].args.type = "undefined"
              /\ interceptors[ret'.i].options.type = "undefined") => ret'.value]_vars

\* C12: an interceptor with no args spec accepts every incoming args and
\* one with no options spec every incoming options, whereas one registered
\* with the empty args sequence matches only incoming args of length 0.
C12_UnspecifiedVsEmpty ==
    /\ UnspecifiedAccepts
    /\ [][(/\ ret'.op = "match"
            /\ ~interceptors[ret'.i].called
            /\ CommandAccepts(interceptors[ret'.i], incoming)
            /\ interceptors[ret'.i].args = Array(<<>>)
            /\ interceptors[ret'.i].options.type = "undefined") =>
              ret'.value = (Len(incoming.args) = 0)]_vars

\* What the getter of mock field n of self returns when it is read with the
\* facade of self as the evaluation context.
Resolved(self, n) ==
    IF self.mocks[mockFields[n]].type = "function"
    THEN Call(self.mocks[mockFields[n]], API(self), <<>>).value
    ELSE self.mocks[mockFields[n]]

\* The event of the given name on handle h.
EventOf(h, name) ==
    CHOOSE e \in {handles[h].events[n] : n \in 1..Len(handles[h].events)} :
      e.name = name

\* C13: a setter stores the deferred computation it is given and runs
\* nothing; run reads no mock (the handle leaves it without code and signal,
\* its resolution not started); the resolution step reads each mock with
\* the facade as context, on which called is true and calledWith is the
\* triple of the run, a literal as it is and a computation by its result,
\* exit code 0 and signal null when never configured; and the code and
\* signal stored on the handle and delivered with exit and close are the
\* values so resolved.
C13_LazyMocks ==
    /\ [][ret'.op = "set" =>
            /\ tasks' = tasks
            /\ handles' = handles
            /\ \A i \in DOMAIN interceptors : \A n \in 1..4 :
                 interceptors'[i].mocks[mockFields[n]]
                     # interceptors[i].mocks[mockFields[n]] =>
                   interceptors'[i].mocks[mockFields[n]] \in MockValues[mockFields[n]]]_vars
    /\ [][(ret'.op = "spawn" /\ ret'.child # 0) =>
            /\ interceptors'[ret'.i].mocks = interceptors[ret'.i].mocks
            /\ tasks'[Len(tasks')].pc = "nextTick"
            /\ tasks'[Len(tasks')].values = <<>>
            /\ handles'[ret'.child].exitCode = null
            /\ handles'[ret'.child].signalCode = null]_vars
    /\ [][\A k \in DOMAIN tasks :
            (tasks[k].pc = "nextTick" /\ tasks'[k].pc # "nextTick") =>
              LET self == interceptors[tasks[k].self]
              IN /\ API(self).called
                 /\ API(self).calledWith = self.calledWith
                 /\ API(self).calledWith.args = handles[tasks[k].returned].spawnargs
                 /\ tasks'[k].pc = "await" =>
                      /\ \A n \in 1..4 : tasks'[k].values[n] = Resolved(self, n)
                      /\ self.mocks.exitCode = Num("0") => tasks'[k].values[1] = Num("0")
                      /\ self.mocks.signal = null => tasks'[k].values[2] = null]_vars
    /\ [][\A k \in DOMAIN tasks :
            (tasks[k].pc = "await" /\ tasks'[k].pc = "done") =>
              /\ tasks'[k].values = awaited(tasks[k].values)
              /\ handles'[tasks[k].returned].exitCode = tasks'[k].values[1]
              /\ handles'[tasks[k].returned].signalCode = tasks'[k].values[2]]_vars
    /\ [](\A k \in DOMAIN tasks :
            tasks[k].pc = "done" =>
              /\ handles[tasks[k].returned].exitCode = tasks[k].values[1]
              /\ handles[tasks[k].returned].signalCode = tasks[k].values[2]
              /\ EventOf(tasks[k].returned, "exit").code = tasks[k].values[1]
              /\ EventOf(tasks[k].returned, "exit").signal = tasks[k].values[2]
              /\ EventOf(tasks[k].returned, "close").code = tasks[k].values[1]
              /\ EventOf(tasks[k].returned, "close").signal = tasks[k].values[2])

\* C13 witness: with exitCode set to a computation returning 1 and stdout to
\* one joining this.calledWith.args, and signal never configured, the run of
\* ("ls", ["a", "b"], {}) has ended with code 1, signal null and the output
\* "a,b".
C13_Witness ==
    \E k \in DOMAIN tasks :
      /\ tasks[k].pc = "done"
      /\ interceptors[tasks[k].self].mocks.exitCode = Function("one")
      /\ interceptors[tasks[k].self].mocks.stdout = Function("joinArgs")
      /\ interceptors[tasks[k].self].mocks.signal = null
      /\ interceptors[tasks[k].self].calledWith.args = <<"a", "b">>
      /\ handles[tasks[k].returned].exitCode = Num("1")
      /\ handles[tasks[k].returned].signalCode = null
      /\ handles[tasks[k].returned].stdout.chunks = <<Str("a,b")>>
      /\ EventOf(tasks[k].returned, "exit").code = Num("1")

\* What a stream holds after a resolution whose value for it is v: v, written
\* once, unless v is falsy, and one end.
Filled(v) ==
    [PassThrough EXCEPT !.chunks = IF ToBoolean(v) THEN <<v>> ELSE <<>>,
                        !.ended = TRUE, !.ends = 1]

\* The handle h as the listeners of its event of the given name found it.
SeenAt(h, name) ==
    handles[h].observed[CHOOSE n \in 1..Len(handles[h].events) :
                          handles[h].events[n].name = name]

\* C14: after a resolution that completes, the output stream holds exactly
\* the resolved stdout and the error stream exactly the resolved stderr,
\* written once, or nothing when the value is falsy; each stream was ended
\* exactly once, with no write after its end, and was ended already when
\* exit was emitted; and until the resolution the streams are as run made
\* them: nothing written, not ended.
C14_StreamCompletion ==
    /\ [](\A k \in DOMAIN tasks :
            tasks[k].pc = "done" =>
              /\ handles[tasks[k].returned].stdout = Filled(tasks[k].values[3])
              /\ handles[tasks[k].returned].stderr = Filled(tasks[k].values[4])
              /\ SeenAt(tasks[k].returned, "exit").stdout = Filled(tasks[k].values[3])
              /\ SeenAt(tasks[k].returned, "exit").stderr = Filled(tasks[k].values[4]))
    /\ [](\A k \in DOMAIN tasks :
            tasks[k].pc # "done" =>
              /\ handles[tasks[k].returned].stdout = PassThrough
              /\ handles[tasks[k].returned].stderr = PassThrough)
    /\ [][\A h \in DOMAIN handles :
            (handles[h].stdout # undefined /\ handles[h].stdout.ended) =>
              handles'[h] = handles[h]]_vars

\* C14 witness: a resolution has completed with "out" written to the output
\* stream and nothing to the error stream (stderr was never configured),
\* both ended.
C14_Witness ==
    \E k \in DOMAIN tasks :
      /\ tasks[k].pc = "done"
      /\ tasks[k].values[3] = Str("out")
      /\ tasks[k].values[4] = undefined
      /\ handles[tasks[k].returned].stdout.chunks = <<Str("out")>>
      /\ handles[tasks[k].returned].stderr.chunks = <<>>
      /\ handles[tasks[k].returned].stdout.ends = 1
      /\ handles[tasks[k].returned].stderr.ends = 1

\* The interceptors of the pool whose match accepts the incoming request.
Accepting ==
    {j \in DOMAIN interceptors :
       match(interceptors[j], incoming.command, incoming.args, incoming.options).value}

\* A request is served by the first interceptor, in registration order,
\* whose match accepts it then, and by none when none accepts it: no handle
\* and no resolution then; and no interceptor serves two requests.
FirstMatchServes ==
    /\ [][ret'.op = "spawn" =>
            IF Accepting = {}
            THEN /\ ret'.i = 0
                 /\ ret'.child = 0
                 /\ handles' = handles
                 /\ tasks' = tasks
            ELSE /\ ret'.i = Min(Accepting)
                 /\ ~interceptors[ret'.i].called
                 /\ interceptors'[ret'.i].called
                 /\ ret'.child = Len(handles) + 1
                 /\ Len(tasks') = Len(tasks) + 1]_vars
    /\ [](\A k1 \in DOMAIN tasks, k2 \in DOMAIN tasks :
            tasks[k1].self = tasks[k2].self => k1 = k2)

\* C15: each request is served by the first interceptor in registration
\* order whose match succeeds then; the interceptors that are not the one
\* serving it are left as they were, whatever match attempts were made on
\* them; each interceptor serves at most one request; and a request that
\* no interceptor accepts yields no match and no handle.
C15_FirstMatchPool ==
    /\ FirstMatchServes
    /\ [][ret'.op = "spawn" =>
            \A j \in DOMAIN interceptors :
              j # ret'.i => interceptors'[j] = interceptors[j]]_vars

StartsWith(s, prefix) ==
    Len(s) >= Len(prefix) /\ SubSeq(s, 1, Len(prefix)) = prefix

Contains(s, part) == Occurrences(s, part, 0) # {}

\* A description without its prefix "un", if it has one.
Unprefixed(d) == IF StartsWith(d, "un") THEN SubSeq(d, 3, Len(d)) ELSE d

\* C16: the description starts with "uncalled" exactly when called is
\* false and with "called" exactly when it is true; it names the command
\* spec; it has an args segment exactly when an args spec was registered and
\* an options segment exactly when an options spec was; the segments are
\* the registered specs; and no step changes anything of it but the prefix.
C16_Description ==
    /\ [][ret'.op = "description" =>
            LET self == interceptors[ret'.i]
                d == ret'.text
            IN /\ StartsWith(d, "uncalled") <=> ~self.called
               /\ StartsWith(d, "called") <=> self.called
               /\ Contains(d, "command: '" \o TemplateString(self.command) \o "'")
               /\ Contains(d, ", args: ") <=> self.args.type # "undefined"
               /\ Contains(d, ", options: ") <=> self.options.type # "undefined"
               /\ self.args.type = "array" =>
                    Contains(d, ", args: "
                                 \o (IF self.args.items = <<>> THEN "[]"
                                     ELSE "[ " \o inspectStrings(self.args.items) \o " ]"))
               /\ self.args.type = "function" =>
                    Contains(d, ", args: " \o inspect(self.args))
               /\ self.options.type # "undefined" =>
                    Contains(d, ", options: " \o inspect(self.options))]_vars
    /\ [][\A i \in DOMAIN interceptors :
            Unprefixed(API_description(interceptors'[i]))
              = Unprefixed(API_description(interceptors[i]))]_vars

\* C16 witness: after its run the interceptor for "ls" with args ["a", "b"]
\* and options {cwd: "/tmp"} has described itself as called, with both
\* segments.
C16_Witness ==
    /\ ret.op = "description"
    /\ interceptors[ret.i].called
    /\ ret.text = "called spawk interceptor for command: 'ls', args: [ 'a', 'b' ], options: { cwd: '/tmp' }"

\* C17: the handle run returns has spawnargs equal to the args of the run,
\* from that step on; its exitCode and signalCode are unset (null) until
\* the resolution sets them; and the listeners of exit and of close find
\* exitCode equal to the emitted code, signalCode equal to the emitted
\* signal, and connected false.
C17_HandleFields ==
    /\ [][(ret'.op = "spawn" /\ ret'.child # 0) =>
            /\ handles'[ret'.child].spawnargs = incoming.args
            /\ handles'[ret'.child].exitCode = null
            /\ handles'[ret'.child].signalCode = null]_vars
    /\ [][\A h \in Returned : handles'[h].spawnargs = handles[h].spawnargs]_vars
    /\ [](\A k \in DOMAIN tasks :
            /\ handles[tasks[k].returned].spawnargs
                 = interceptors[tasks[k].self].calledWith.args
            /\ tasks[k].pc # "done" =>
                 /\ handles[tasks[k].returned].exitCode = null
                 /\ handles[tasks[k].returned].signalCode = null)
    /\ [](\A h \in DOMAIN handles : \A n \in 1..Len(handles[h].events) :
            handles[h].events[n].name \in {"exit", "close"} =>
              /\ handles[h].observed[n].exitCode = handles[h].events[n].code
              /\ handles[h].observed[n].signalCode = handles[h].events[n].signal
              /\ handles[h].observed[n].connected = FALSE
              /\ handles[h].observed[n].spawnargs = handles[h].spawnargs)

\* C17 witness: the handle of a run with args ["a", "b"] has emitted exit
\* with code 1 and signal SIGTERM, and its listeners found exitCode 1 and
\* signalCode SIGTERM on it.
C17_Witness ==
    \E h \in Returned :
      /\ handles[h].spawnargs = <<"a", "b">>
      /\ Len(handles[h].events) = 3
      /\ handles[h].events[2] = [name |-> "exit", code |-> Num("1"),
                                 signal |-> Str("SIGTERM")]
      /\ handles[h].observed[2].exitCode = Num("1")
      /\ handles[h].observed[2].signalCode = Str("SIGTERM")
      /\ handles[h].observed[1].exitCode = null

\* The tasks whose resolution a step has moved.
Moved == {k \in DOMAIN tasks : tasks'[k] # tasks[k]}

\* C18: with the resolutions of several interceptors pending or suspended
\* together and run in any order, each handle emits spawn, exit, close in
\* that order; a step of a resolution is the step of one interceptor: it
\* reads the mocks of its own interceptor, with its own calledWith, and
\* gives its own handle the values it read, in the fields, the events and
\* the streams; and it leaves every interceptor (called, calledWith, mocks)
\* and every other handle as they were.
C18_Independence ==
    /\ [](\A h \in DOMAIN handles :
            EventNames(h) \in {<<>>, <<"spawn">>, <<"spawn", "exit", "close">>})
    /\ [][ret'.op = "callback" =>
            /\ interceptors' = interceptors
            /\ \E k \in DOMAIN tasks :
                 /\ Moved = {k}
                 /\ \A h \in DOMAIN handles :
                      h # tasks[k].returned => handles'[h] = handles[h]
                 /\ tasks'[k].pc = "await" =>
                      \A n \in 1..4 :
                        tasks'[k].values[n] = Resolved(interceptors[tasks[k].self], n)
                 /\ tasks'[k].pc = "done" =>
                      /\ tasks'[k].values = awaited(tasks[k].values)
                      /\ handles'[tasks[k].returned].exitCode = tasks'[k].values[1]
                      /\ handles'[tasks[k].returned].signalCode = tasks'[k].values[2]
                      /\ handles'[tasks[k].returned].stdout = Filled(tasks'[k].values[3])
                      /\ handles'[tasks[k].returned].stderr = Filled(tasks'[k].values[4])
                      /\ handles'[tasks[k].returned].events =
                           <<[name |-> "spawn"],
                             [name |-> "exit", code |-> tasks'[k].values[1],
                              signal |-> tasks'[k].values[2]],
                             [name |-> "close", code |-> tasks'[k].values[1],
                              signal |-> tasks'[k].values[2]]>>]_vars
    /\ [](\A k \in DOMAIN tasks :
            tasks[k].pc = "done" =>
              /\ handles[tasks[k].returned].exitCode = tasks[k].values[1]
              /\ handles[tasks[k].returned].stdout = Filled(tasks[k].values[3])
              /\ interceptors[tasks[k].self].child = tasks[k].returned)

\* C18 witness: two interceptors were run, the second resolution is over
\* while the first is still suspended at its await, and the second handle
\* has the code and the output of its own interceptor, not those the first
\* resolution has read.
C18_Witness ==
    /\ Len(tasks) = 2
    /\ tasks[1].pc = "await"
    /\ tasks[2].pc = "done"
    /\ tasks[1].values[1] = Num("1")
    /\ tasks[1].values[3] = Str("a,b")
    /\ handles[tasks[2].returned].exitCode = Num("0")
    /\ handles[tasks[2].returned].stdout.chunks = <<>>
    /\ EventNames(tasks[2].returned) = <<"spawn", "exit", "close">>
    /\ EventNames(tasks[1].returned) = <<"spawn">>

\* The handle h has received exit and close, once each.
Exited(h) == EventNames(h) = <<"spawn", "exit", "close">>

\* The resolution of a run works on the handle the run returned, and on no
\* other: the step that completes it sets the code and the signal, ends the
\* streams and emits exit and close there; no handle gets exit or close
\* twice, and no stream is written after its end.
OwnHandleOnly ==
    /\ [][\A k \in DOMAIN tasks :
            (tasks[k].pc = "await" /\ tasks'[k].pc = "done") =>
              /\ interceptors[tasks[k].self].child = tasks[k].returned
              /\ ~Exited(tasks[k].returned)
              /\ handles'[tasks[k].returned].exitCode = tasks'[k].values[1]
              /\ handles'[tasks[k].returned].signalCode = tasks'[k].values[2]
              /\ handles'[tasks[k].returned].stdout.ended
              /\ handles'[tasks[k].returned].stderr.ended
              /\ NamesIn(handles', tasks[k].returned) = <<"spawn", "exit", "close">>
              /\ \A h \in DOMAIN handles :
                   h # tasks[k].returned => handles'[h] = handles[h]]_vars
    /\ [][\A h \in DOMAIN handles :
            handles'[h] # handles[h] =>
              \E k \in DOMAIN tasks :
                tasks[k].returned = h /\ tasks[k].pc = "await" /\ tasks'[k].pc = "done"]_vars
    /\ [](\A h \in DOMAIN handles :
            /\ EventNames(h) \in {<<>>, <<"spawn">>, <<"spawn", "exit", "close">>}
            /\ h \in Returned =>
                 /\ handles[h].stdout.error = ""
                 /\ handles[h].stderr.error = ""
                 /\ handles[h].stdout.ends <= 1
                 /\ handles[h].stderr.ends <= 1
            /\ h \notin Returned => handles[h] = ChildProcess)

\* C19 as claimed: the resolution of every run works on the handle that run
\* returned, and every handle run has returned receives exit and close,
\* exactly once.
C19_HandleIdentity ==
    /\ OwnHandleOnly
    /\ (Returned # {}) ~> (\A h \in Returned : Exited(h))

\* C19 as amended: with run called after a successful match, so once per
\* interceptor, the resolution of a run works on the handle that run
\* returned; a handle run has returned receives exit and close at most
\* once, exactly once when its resolution completes and never when its
\* resolution fails; and no stream is written after its end.
C19_OwnHandleAtMostOnce ==
    /\ OwnHandleOnly
    /\ [](\A k \in DOMAIN tasks :
            /\ tasks[k].pc = "done" => Exited(tasks[k].returned)
            /\ tasks[k].pc # "done" => EventNames(tasks[k].returned) = <<"spawn">>)
    /\ [][\A k \in DOMAIN tasks :
            tasks[k].pc \in {"done", "rejected"} =>
              /\ tasks'[k] = tasks[k]
              /\ handles'[tasks[k].returned] = handles[tasks[k].returned]]_vars

\* C19 witness: a resolution is over, the handle its run returned has
\* received exit and close with streams ended once, and the handle the
\* constructor made is as it was.
C19_Witness ==
    \E k \in DOMAIN tasks :
      /\ tasks[k].pc = "done"
      /\ interceptors[tasks[k].self].child = tasks[k].returned
      /\ Exited(tasks[k].returned)
      /\ handles[tasks[k].returned].stdout.ends = 1
      /\ handles[tasks[k].returned].stdout.error = ""
      /\ handles[interceptors[tasks[k].self].mocks.child] = ChildProcess

\* C20: a setter called after run has returned and before the resolution
\* step has run stores its value, and the resolution step reads the mocks
\* as they are when it runs: that value is the one delivered; a setter
\* called after the resolution step has read the mocks changes the mocks
\* alone: the values read, the handle and its events are what they would
\* have been without it.
C20_ReadAtResolution ==
    /\ [][ret'.op = "set" =>
            /\ tasks' = tasks
            /\ handles' = handles
            /\ \E i \in DOMAIN interceptors, n \in 1..4 :
                 \E value \in MockValues[mockFields[n]] :
                   interceptors' = [interceptors EXCEPT ![i].mocks[mockFields[n]] = value]]_vars
    /\ [][\A k \in DOMAIN tasks :
            (tasks[k].pc = "nextTick" /\ tasks'[k].pc # "nextTick") =>
              LET self == interceptors[tasks[k].self]
              IN IF Raises(self) # {}
                 THEN tasks'[k].pc = "rejected"
                 ELSE /\ tasks'[k].pc = "await"
                      /\ tasks'[k].values = [n \in 1..4 |-> Resolved(self, n)]]_vars
    /\ [][\A k \in DOMAIN tasks :
            (tasks[k].pc = "await" /\ tasks'[k].pc = "done") =>
              LET v == awaited(tasks[k].values)
              IN /\ handles'[tasks[k].returned].exitCode = v[1]
                 /\ handles'[tasks[k].returned].signalCode = v[2]
                 /\ handles'[tasks[k].returned].stdout = Filled(v[3])
                 /\ handles'[tasks[k].returned].stderr = Filled(v[4])
                 /\ handles'[tasks[k].returned].events[2]
                      = [name |-> "exit", code |-> v[1], signal |-> v[2]]
                 /\ handles'[tasks[k].returned].events[3]
                      = [name |-> "close", code |-> v[1], signal |-> v[2]]]_vars

\* C20 witness: a resolution has ended with exit code 1 and signal SIGTERM,
\* read when the step ran, while the exit code mock is now a computation
\* that throws and the signal mock one that rejects: they were set after
\* the step had read the mocks, and nothing of the handle shows them.
C20_Witness ==
    \E k \in DOMAIN tasks :
      /\ tasks[k].pc = "done"
      /\ interceptors[tasks[k].self].mocks.exitCode = Function("boom")
      /\ interceptors[tasks[k].self].mocks.signal = Function("rejects")
      /\ handles[tasks[k].returned].exitCode = Num("1")
      /\ handles[tasks[k].returned].signalCode = Str("SIGTERM")
      /\ handles[tasks[k].returned].events[2]
           = [name |-> "exit", code |-> Num("1"), signal |-> Str("SIGTERM")]

====
